---- MODULE Spec2Model ----
(***************************************************************************)
(* heatwave (src/index.ts): a batch tool that unfreezes Everscale accounts. *)
(* One run is app(args): parse arguments, resolve the giver account, read   *)
(* the address list, prepare one state per account (prepareStates, with a   *)
(* file cache under the temporary directory and the applyState fallback),   *)
(* then redeploy every prepared state through the microwave contract.       *)
(*                                                                         *)
(* The model follows the program await by await.  The chain provider, the   *)
(* states API and the file system are the environment: each of their        *)
(* answers is a nondeterministic choice.  The cache directory and the       *)
(* address file outlive a run; everything else is rebuilt by Rerun.         *)
(***************************************************************************)
EXTENDS Integers, Sequences, FiniteSets, TLC

\* ------------------------------------------------------------------ bounds
MaxAccounts == 2      \* longest address list
MaxPageLen == 3       \* most transactions in one page, in SpecLocate
MaxPages == 2         \* most pages served for one account, in SpecLocate
RunPageLen == 1       \* most transactions in one page, in Spec
RunPages == 2         \* most pages served for one account, in Spec

\* --------------------------------------------------------------- constants
TX_FEE == 100000000
TargetBalance == 1000000000

\* -------------------------------------------------------------- value sets
Addrs == {"a1", "a2"}
None == "none"

\* Account statuses of a transaction record: "active" stands for every status
\* other than "frozen" (the scan only compares with "frozen").
TxStatus == {"frozen", "active"}

Pad == 64             \* the '=' character; 0..63 are the base64 digits

\* The address lists of a run.  The two addresses are interchangeable, so a
\* list that is not empty starts with "a1".
AddressLists ==
  { l \in UNION {[1..n -> Addrs] : n \in 0..MaxAccounts} :
      Len(l) > 0 => l[1] = "a1" }

\* ------------------------------------------------------------------ base64
\* Buffer.toString("base64"): canonical, padded encoding.
ToBase64NoPad(bytes) ==
  LET Enc[i \in 1..(Len(bytes) + 3)] ==
        IF i > Len(bytes) THEN <<>>
        ELSE IF i + 2 <= Len(bytes) THEN
          << bytes[i] \div 4,
             (bytes[i] % 4) * 16 + bytes[i+1] \div 16,
             (bytes[i+1] % 16) * 4 + bytes[i+2] \div 64,
             bytes[i+2] % 64 >> \o Enc[i+3]
        ELSE IF i + 1 = Len(bytes) THEN
          << bytes[i] \div 4,
             (bytes[i] % 4) * 16 + bytes[i+1] \div 16,
             (bytes[i+1] % 16) * 4 >>
        ELSE << bytes[i] \div 4, (bytes[i] % 4) * 16 >>
  IN Enc[1]

ToBase64(bytes) ==
  LET Enc[i \in 1..(Len(bytes) + 3)] ==
        IF i > Len(bytes) THEN <<>>
        ELSE IF i + 2 <= Len(bytes) THEN
          << bytes[i] \div 4,
             (bytes[i] % 4) * 16 + bytes[i+1] \div 16,
             (bytes[i+1] % 16) * 4 + bytes[i+2] \div 64,
             bytes[i+2] % 64 >> \o Enc[i+3]
        ELSE IF i + 1 = Len(bytes) THEN
          << bytes[i] \div 4,
             (bytes[i] % 4) * 16 + bytes[i+1] \div 16,
             (bytes[i+1] % 16) * 4,
             Pad >>
        ELSE << bytes[i] \div 4, (bytes[i] % 4) * 16, Pad, Pad >>
  IN Enc[1]

\* Buffer.from(s, "base64"): lenient decoding.  The digits before the first
\* '=' are read four at a time; a trailing group of two or three digits gives
\* one or two bytes and the bits left over are dropped.
FromBase64(chars) ==
  LET padAt == {i \in 1..Len(chars) : chars[i] = Pad}
      n == IF padAt = {} THEN Len(chars)
           ELSE (CHOOSE i \in padAt : \A j \in padAt : i <= j) - 1
      Dec[i \in 1..(n + 4)] ==
        IF i + 1 > n THEN <<>>
        ELSE IF i + 2 > n THEN
          << chars[i] * 4 + chars[i+1] \div 16 >>
        ELSE IF i + 3 > n THEN
          << chars[i] * 4 + chars[i+1] \div 16,
             (chars[i+1] % 16) * 16 + chars[i+2] \div 4 >>
        ELSE
          << chars[i] * 4 + chars[i+1] \div 16,
             (chars[i+1] % 16) * 16 + chars[i+2] \div 4,
             (chars[i+2] % 4) * 64 + chars[i+3] >> \o Dec[i+4]
  IN Dec[1]

\* nt.parseFullAccountStateInit returns the state init as a base64 string:
\* here "tQ==" (one byte, 181) and "B/8=" (two bytes, 7 255), so that both
\* paddings occur.
StateInits == {<<45, 16, Pad, Pad>>, <<1, 63, 60, Pad>>}

\* --------------------------------------------------------------- the state
\* A value that may be missing (null, undefined, no file) is a set: empty when
\* missing, else the singleton of the value.
VARIABLES
  file,                \* the address file: [readable, list]
  cache,               \* the cache directory: address -> {} or {file bytes}
  pc,                  \* where the process stands
  exitCode,            \* {} while the process runs, else {code}
  ignoreCache,         \* parsedArgs.ignoreCache
  giverCodeHash,       \* the giver's on-chain state as the provider reported it
  accountsStorage,     \* the accounts added to accountsStorage
  accounts,            \* the list readAccounts returned
  current,             \* prepareStates: 1-based position in accounts
  result,              \* prepareStates: the FrozenAccount list built so far
  storageFeeDebt,      \* prepareStates: the debt of the account in hand
  reported,            \* what computeStorageFee reported for the account in hand
  freezeTransactionLt, \* applyState: {} until the freeze transaction is found
  continuation,        \* applyState: TRUE while the last batch carried a token
  state,               \* prepareStates: {the string applyState returned}
  item,                \* app: 1-based position in states of the redeploy loop
  targetBalance,       \* {} until line 173 converts it, then {its value}
  sent,                \* the deploy messages the giver has sent
  inFlight,            \* deploy messages sent and not yet traced to the end
  lastLog,             \* the last line written for the step in hand
  thrown,              \* the stage of the last throw for the step in hand
  touched,             \* which per-account facilities this run has used
  seen,                \* applyState: the transactions the for loop looked at
  delivered,           \* applyState: how many the provider has delivered
  requests,            \* applyState: getTransactions calls for this account
  offered,             \* applyState: whether the last batch carried a token
  fetched,             \* a states-API request was made for the account in hand
  archiveRequests,     \* states-API requests of this run
  lastPut,             \* address -> {the string of the last completed write}
  fullyCached          \* every listed address had a cache file at run start

vars == << file, cache, pc, exitCode, ignoreCache, giverCodeHash,
           accountsStorage, accounts, current, result, storageFeeDebt,
           reported, freezeTransactionLt, continuation, state, item,
           targetBalance, sent, inFlight,
           lastLog, thrown, touched, seen, delivered, requests, offered, fetched,
           archiveRequests,
           lastPut, fullyCached >>

scanVars == << freezeTransactionLt, continuation, seen, delivered, requests,
              offered >>
setupVars == << ignoreCache, giverCodeHash, accountsStorage, accounts >>
redeployVars == << item, targetBalance, sent, inFlight >>
diskVars == << file, cache, lastPut, fullyCached >>

Untouched == [provider |-> FALSE, cache |-> FALSE]
NotReported == [accountStatus |-> None, storageFeeDebt |-> {}]
Reported(accountStatus, debt) ==
  [accountStatus |-> accountStatus, storageFeeDebt |-> debt]
Log(kind, msg) == [kind |-> kind, msg |-> msg]
NoLog == Log(None, None)

Listed(list) == {list[i] : i \in 1..Len(list)}

\* The variables of one run, as they are when the process starts.
RunInit ==
  /\ pc = "main"
  /\ exitCode = {}
  /\ ignoreCache = FALSE
  /\ giverCodeHash = None
  /\ accountsStorage = {}
  /\ accounts = <<>>
  /\ current = 0
  /\ result = <<>>
  /\ storageFeeDebt = 0
  /\ reported = NotReported
  /\ freezeTransactionLt = {}
  /\ continuation = FALSE
  /\ state = {}
  /\ item = 0
  /\ targetBalance = {}
  /\ sent = <<>>
  /\ inFlight = {}
  /\ lastLog = NoLog
  /\ thrown = None
  /\ touched = Untouched
  /\ seen = <<>>
  /\ delivered = 0
  /\ requests = 0
  /\ offered = FALSE
  /\ fetched = FALSE
  /\ archiveRequests = 0

Init ==
  /\ file \in [readable : {TRUE}, list : AddressLists]
               \cup {[readable |-> FALSE, list |-> <<>>]}
  /\ cache = [a \in Addrs |-> {}]
  /\ lastPut = [a \in Addrs |-> {}]
  /\ fullyCached = (Listed(file.list) = {})
  /\ RunInit

\* ------------------------------------------------------- failure handling
\* The try block of prepareStates (lines 316-376) covers the status check,
\* the cache lookup, applyState and the cache write.  Nothing else in app()
\* is inside a try block.
InTry(stage) == stage \in {"status", "cache", "locate", "apply", "write"}

\* A throw at `stage`: inside the try block the catch of line 374 logs
\* "skipping" and the for loop goes on; anywhere else the promise of app()
\* rejects, and the catch of line 441 logs the message and exits with 1.
ThrowExitsClean(stage, msg) ==
  /\ thrown' = stage
  /\ IF InTry(stage)
       THEN /\ lastLog' = Log("skipping", msg)
            /\ pc' = "loop"
            /\ exitCode' = exitCode
       ELSE /\ lastLog' = Log("fatal", msg)
            /\ pc' = "exit"
            /\ exitCode' = {0}

Throw(stage, msg) ==
  /\ thrown' = stage
  /\ IF InTry(stage)
       THEN /\ lastLog' = Log("skipping", msg)
            /\ pc' = "loop"
            /\ exitCode' = exitCode
       ELSE /\ lastLog' = Log("fatal", msg)
            /\ pc' = "exit"
            /\ exitCode' = {1}

\* An ordinary step to `p`, writing `log`.
Goto(p, log) ==
  /\ pc' = p
  /\ lastLog' = log
  /\ thrown' = None
  /\ UNCHANGED exitCode

\* ------------------------------------------------------------------ set-up
WalletV3Hash == "84dafa449f98a6987789ba232358072bc0f76dc4524002a5d0918b9a75d2d599"
HighloadV2Hash == "0b3a887aeacd2a7d40bb5550bc9253156a029065aefb6d6b583735d58da9d5be"
EverWalletHash == "3ba6528ab2694c118180aa3bd10dd19ff400b909ab4dcf58fc69925b2c7b12a6"
GiverHash == "ccbfc821853aa641af3813ebd477e26818b51e4ca23e5f6d34509215aa7123d9"
UnlistedHash == "ffffffffffffffffffffffffffffffffffffffffffffffffffffffffffffffff"

\* What getFullContractState may report for the giver: no state, a state
\* without code hash, or a state with some code hash.
GiverStates ==
  { "absent", "uninit", "", UnlistedHash,
    WalletV3Hash, HighloadV2Hash, EverWalletHash, GiverHash }

\* The giver states of Spec: every way to fail, and the giver contract.
RunGiverStates == { "absent", "uninit", "", UnlistedHash, GiverHash }

Account(kind, withKey) == [kind |-> kind, publicKey |-> withKey]
Resolved(account) == [error |-> None, account |-> {account}]
Failed(msg) == [error |-> msg, account |-> {}]

guessGiverAccountAllKeyed(codeHash) ==
  IF codeHash = "absent" THEN Failed("Giver account not found")
  ELSE IF codeHash = "uninit" THEN Failed("Giver account is uninit")
  ELSE IF codeHash = WalletV3Hash THEN Resolved(Account("WalletV3Account", FALSE))
  ELSE IF codeHash = HighloadV2Hash THEN Resolved(Account("HighloadWalletV2", FALSE))
  ELSE IF codeHash = EverWalletHash THEN Resolved(Account("EverWalletAccount", TRUE))
  ELSE IF codeHash = GiverHash THEN Resolved(Account("GiverAccount", TRUE))
  ELSE Failed("Unknown contract")

guessGiverAccountOpen(codeHash) ==
  IF codeHash = "absent" THEN Failed("Giver account not found")
  ELSE IF codeHash = "uninit" THEN Failed("Giver account is uninit")
  ELSE IF codeHash = HighloadV2Hash THEN Resolved(Account("HighloadWalletV2", FALSE))
  ELSE IF codeHash = EverWalletHash THEN Resolved(Account("EverWalletAccount", FALSE))
  ELSE IF codeHash = GiverHash THEN Resolved(Account("GiverAccount", TRUE))
  ELSE Resolved(Account("WalletV3Account", FALSE))

guessGiverAccount(codeHash) ==
  IF codeHash = "absent" THEN Failed("Giver account not found")
  ELSE IF codeHash = "uninit" THEN Failed("Giver account is uninit")
  ELSE IF codeHash = WalletV3Hash THEN Resolved(Account("WalletV3Account", FALSE))
  ELSE IF codeHash = HighloadV2Hash THEN Resolved(Account("HighloadWalletV2", FALSE))
  ELSE IF codeHash = EverWalletHash THEN Resolved(Account("EverWalletAccount", FALSE))
  ELSE IF codeHash = GiverHash THEN Resolved(Account("GiverAccount", TRUE))
  ELSE Failed("Unknown contract")

runVars == << ignoreCache, giverCodeHash, accountsStorage, accounts, current,
              result, storageFeeDebt, reported, state, touched, fetched,
              archiveRequests >>

\* Lines 434-439 and 54-104: a help flag prints the usage and exits with 1;
\* otherwise app() starts and parseArgs runs.
Main ==
  /\ pc = "main"
  /\ \/ /\ pc' = "exit"
        /\ exitCode' = {1}
        /\ lastLog' = Log("usage", None)
        /\ UNCHANGED << thrown, ignoreCache >>
     \/ /\ Throw("args", "Required options not provided")
        /\ UNCHANGED ignoreCache
     \/ \E flag \in BOOLEAN :
          /\ ignoreCache' = flag
          /\ Goto("keys", NoLog)
  /\ UNCHANGED << giverCodeHash, accountsStorage, accounts, current, result,
                  storageFeeDebt, reported, state, touched, fetched,
                  archiveRequests >>
  /\ UNCHANGED << scanVars, redeployVars, diskVars >>

\* Lines 106-138: the key file is read and the provider initialised.
LoadKeys ==
  /\ pc = "keys"
  /\ \/ Throw("keys", "Invalid keys")
     \/ Goto("giver", NoLog)
  /\ UNCHANGED << runVars, scanVars, redeployVars, diskVars >>

\* Lines 140-143; the provider reports one of `states` for the giver.
GuessGiver(states) ==
  /\ pc = "giver"
  /\ \E codeHash \in states :
       LET r == guessGiverAccount(codeHash) IN
       /\ giverCodeHash' = codeHash
       /\ IF r.error # None
            THEN /\ Throw("giver", r.error)
                 /\ UNCHANGED accountsStorage
            ELSE /\ accountsStorage' = accountsStorage \cup r.account
                 /\ Goto("read", NoLog)
  /\ UNCHANGED << ignoreCache, accounts, current, result, storageFeeDebt,
                  reported, state, touched, fetched, archiveRequests >>
  /\ UNCHANGED << scanVars, redeployVars, diskVars >>

\* Lines 146-147 and 226-239.
ReadAccounts ==
  /\ pc = "read"
  /\ IF file.readable
       THEN /\ accounts' = file.list
            /\ Goto("addr", Log("Input", None))
       ELSE /\ Throw("read", "ENOENT")
            /\ UNCHANGED accounts
  /\ UNCHANGED << ignoreCache, giverCodeHash, accountsStorage, current, result,
                  storageFeeDebt, reported, state, touched, fetched,
                  archiveRequests >>
  /\ UNCHANGED << scanVars, redeployVars, diskVars >>

\* Lines 150-153: the microwave address from the hash of its code.
ComputeAddr ==
  /\ pc = "addr"
  /\ \/ Throw("addr", "getBocHash failed")
     \/ Goto("mkdir", Log("Microwave address", None))
  /\ UNCHANGED << runVars, scanVars, redeployVars, diskVars >>

\* Lines 298-299: prepareStates creates the cache directory.
MakeCacheDir ==
  /\ pc = "mkdir"
  /\ touched' = [touched EXCEPT !.cache = TRUE]
  /\ \/ Throw("mkdir", "mkdir failed")
     \/ Goto("loop", Log("Preparing states", None))
  /\ UNCHANGED << ignoreCache, giverCodeHash, accountsStorage, accounts, current,
                  result, storageFeeDebt, reported, state, fetched,
                  archiveRequests >>
  /\ UNCHANGED << scanVars, redeployVars, diskVars >>

\* ----------------------------------------------------------- prepareStates
Address == accounts[current]

\* Lines 307-315: the head of the for loop; past the last account
\* prepareStates returns and app() turns to the redeploy loop.
PrepareLoop ==
  /\ pc = "loop"
  /\ IF current < Len(accounts)
       THEN /\ current' = current + 1
            /\ Goto("status", Log("Preparing account", None))
       ELSE /\ UNCHANGED current
            /\ Goto("unfreeze", Log("Unfreezing contracts", None))
  /\ storageFeeDebt' = 0
  /\ reported' = NotReported
  /\ state' = {}
  /\ freezeTransactionLt' = {}
  /\ continuation' = FALSE
  /\ seen' = <<>>
  /\ delivered' = 0
  /\ requests' = 0
  /\ offered' = FALSE
  /\ fetched' = FALSE
  /\ UNCHANGED << setupVars, result, touched, archiveRequests >>
  /\ UNCHANGED << redeployVars, diskVars >>

\* What computeStorageFee may report.
AccountStatuses == {"frozen", "nonexist", "active", "uninit"}
Debts == {{}, {1}}

\* Lines 329-332.
IsFrozenOrActive(accountStatus) ==
  accountStatus \in {"frozen", "nonexist", "active"}

IsFrozen(accountStatus) == accountStatus \in {"frozen", "nonexist"}

\* Lines 335-336.
DebtOrOne(debt) == IF debt = {} THEN 1 ELSE CHOOSE d \in debt : TRUE

DebtOrZero(debt) == IF debt = {} THEN 0 ELSE CHOOSE d \in debt : TRUE

\* Lines 337-340: with the debt known, the cache lookup is what follows.
AfterStatusNoLookup == "locate"

AfterStatus == "cache"

\* Lines 317-337: getFullContractState and computeStorageFee.
CheckStatus ==
  /\ pc = "status"
  /\ touched' = [touched EXCEPT !.provider = TRUE]
  /\ \/ /\ Throw("status", "provider error")
        /\ UNCHANGED << storageFeeDebt, reported >>
     \/ /\ Throw("status", "Account is uninit")
        /\ UNCHANGED << storageFeeDebt, reported >>
     \/ \E accountStatus \in AccountStatuses, debt \in Debts :
          /\ reported' = Reported(accountStatus, debt)
          /\ IF IsFrozen(accountStatus)
               THEN /\ storageFeeDebt' = DebtOrZero(debt)
                    /\ Goto(AfterStatus, Log("storage fee debt", None))
               ELSE /\ Throw("status", "Account is not frozen")
                    /\ UNCHANGED storageFeeDebt
  /\ UNCHANGED << setupVars, current, result, state, fetched,
                  archiveRequests >>
  /\ UNCHANGED << scanVars, redeployVars, diskVars >>

\* Line 340.
UseCacheAlways(ignore) == TRUE

UseCache(ignore) == ~ignore

\* Lines 341-350: stat says whether the cache file is there.
StateExistsNever(entry) == FALSE

StateExists(entry) == entry # {}

FrozenAccountNoDebt(address, stateInit, debt) ==
  [address |-> address, state |-> stateInit, storageFeeDebt |-> 0]

FrozenAccount(address, stateInit, debt) ==
  [address |-> address, state |-> stateInit, storageFeeDebt |-> debt]

\* Lines 339-362: with the cache in use and the file there, its bytes are
\* read, encoded and pushed; the fallback of line 365 follows otherwise.
TryCache ==
  /\ pc = "cache"
  /\ IF ~UseCache(ignoreCache)
       THEN /\ Goto("locate", Log("searching for freeze transaction", None))
            /\ UNCHANGED << result, touched >>
       ELSE /\ touched' = [touched EXCEPT !.cache = TRUE]
            /\ \/ /\ Throw("cache", "stat failed")
                  /\ UNCHANGED result
               \/ /\ StateExists(cache[Address])
                  /\ \/ /\ Throw("cache", "read failed")
                        /\ UNCHANGED result
                     \/ \E data \in cache[Address] :
                          /\ result' = Append(result,
                               FrozenAccount(Address, ToBase64(data), storageFeeDebt))
                          /\ Goto("loop", Log("using cached state", None))
               \/ /\ ~StateExists(cache[Address])
                  /\ Goto("locate", Log("searching for freeze transaction", None))
                  /\ UNCHANGED result
  /\ UNCHANGED << setupVars, current, storageFeeDebt, reported, state, fetched,
                  archiveRequests >>
  /\ UNCHANGED << scanVars, redeployVars, diskVars >>

\* -------------------------------------------------------------- applyState
\* Logical times fall from the newest transaction to the oldest: the j-th
\* transaction the provider delivers for an account gets this key.
LtOf(j) == (MaxPages + RunPages) * (MaxPageLen + RunPageLen) - j

Transaction(orig, end, j, page) ==
  [origStatus |-> orig, endStatus |-> end, lt |-> LtOf(j), page |-> page]

\* The batches getTransactions may return after `before` transactions.
Batches(before, page, pageLen) ==
  UNION { { [j \in 1..n |-> Transaction(st[j][1], st[j][2], before + j, page)]
            : st \in [1..n -> TxStatus \X TxStatus] }
          : n \in 0..pageLen }

Scanned(kind, lt, n) == [kind |-> kind, lt |-> lt, examined |-> n]

\* Lines 256-264, the for loop over one batch: "throw" at a transaction that
\* does not end frozen, "found" at one that does not start frozen, "end"
\* when the batch is used up.
ScanBatchNoEndCheck(transactions) ==
  LET Scan[i \in 1..(Len(transactions) + 1)] ==
        IF i > Len(transactions) THEN Scanned("end", {}, i - 1)
        ELSE IF transactions[i].origStatus # "frozen"
          THEN Scanned("found", {transactions[i].lt}, i)
        ELSE Scan[i + 1]
  IN Scan[1]

ScanBatchOrigFirst(transactions) ==
  LET Scan[i \in 1..(Len(transactions) + 1)] ==
        IF i > Len(transactions) THEN Scanned("end", {}, i - 1)
        ELSE IF transactions[i].origStatus # "frozen"
          THEN Scanned("found", {transactions[i].lt}, i)
        ELSE IF transactions[i].endStatus # "frozen"
          THEN Scanned("throw", {}, i)
        ELSE Scan[i + 1]
  IN Scan[1]

ScanBatch(transactions) ==
  LET Scan[i \in 1..(Len(transactions) + 1)] ==
        IF i > Len(transactions) THEN Scanned("end", {}, i - 1)
        ELSE IF transactions[i].endStatus # "frozen"
          THEN Scanned("throw", {}, i)
        ELSE IF transactions[i].origStatus # "frozen"
          THEN Scanned("found", {transactions[i].lt}, i)
        ELSE Scan[i + 1]
  IN Scan[1]

\* Lines 262 and 266-269: the while loop ends at `break outer` or when the
\* batch carries no continuation.
WalkEndsAtLastPage(kind, token) == ~token

WalkEndsOnlyWhenFound(kind, token) == kind = "found"

WalkEnds(kind, token) == kind = "found" \/ ~token

\* Line 271.
LtMissingNever(lt) == FALSE

LtMissing(lt) == lt = {}

\* Lines 246-273: one turn of the while loop, and what follows the loop when
\* it ends.  The provider serves at most `pages` pages of at most `pageLen`
\* transactions.
GetTransactions(pageLen, pages) ==
  /\ pc = "locate"
  /\ \/ /\ Throw("locate", "provider error")
        /\ UNCHANGED scanVars
     \/ \E batch \in Batches(delivered, requests + 1, pageLen), token \in BOOLEAN :
          LET r == ScanBatch(batch)
              lt == IF r.kind = "found" THEN r.lt ELSE freezeTransactionLt
          IN
          /\ token => requests + 1 < pages
          /\ seen' = seen \o SubSeq(batch, 1, r.examined)
          /\ delivered' = delivered + Len(batch)
          /\ requests' = requests + 1
          /\ offered' = token
          /\ IF r.kind = "throw"
               THEN /\ Throw("locate", "Account not frozen")
                    /\ UNCHANGED << freezeTransactionLt, continuation >>
               ELSE /\ freezeTransactionLt' = lt
                    /\ continuation' = IF r.kind = "found" THEN continuation ELSE token
                    /\ IF ~WalkEnds(r.kind, token)
                         THEN Goto("locate", lastLog)
                       ELSE IF LtMissing(lt)
                         THEN Throw("locate", "Freeze transaction not found")
                       ELSE Goto("apply", Log("applying state at logical time", None))
  /\ UNCHANGED << setupVars, current, result, storageFeeDebt, reported, state, touched,
                  fetched, archiveRequests >>
  /\ UNCHANGED << redeployVars, diskVars >>

\* Line 291: what parseFullAccountStateInit may return, {} being null.
ParsedStates == {{}} \cup {{stateInit} : stateInit \in StateInits}

\* Lines 292-294.
EmptyStateNever(stateInit) == FALSE

EmptyState(stateInit) == stateInit = {}

\* Lines 275-295: the request to the states API and the parse of its
\* answer; applyState returns or throws, and its locals are gone.
ApplyState ==
  /\ pc = "apply"
  /\ fetched' = TRUE
  /\ archiveRequests' = archiveRequests + 1
  /\ \/ /\ Throw("apply", "states API error")
        /\ UNCHANGED state
     \/ \E stateInit \in ParsedStates :
          IF EmptyState(stateInit)
            THEN /\ Throw("apply", "Empty state")
                 /\ UNCHANGED state
            ELSE /\ state' = stateInit
                 /\ Goto("write", lastLog)
  /\ freezeTransactionLt' = {}
  /\ continuation' = FALSE
  /\ seen' = <<>>
  /\ delivered' = 0
  /\ requests' = 0
  /\ offered' = FALSE
  /\ UNCHANGED << setupVars, current, result, storageFeeDebt, reported, touched >>
  /\ UNCHANGED << redeployVars, diskVars >>

\* What a writeFile that did not complete leaves of the file: it was not
\* opened (unchanged), or it was opened, which empties it, and not written.
Interrupted(entry) == {entry, {<<>>}}

\* Lines 366-373.
WriteFile ==
  /\ pc = "write"
  /\ touched' = [touched EXCEPT !.cache = TRUE]
  /\ \E stateInit \in state :
       \/ /\ cache' = [cache EXCEPT ![Address] = {FromBase64(stateInit)}]
          /\ lastPut' = [lastPut EXCEPT ![Address] = {stateInit}]
          /\ result' = Append(result,
               FrozenAccount(Address, stateInit, storageFeeDebt))
          /\ Goto("loop", Log("updated cached state", None))
       \/ \E left \in Interrupted(cache[Address]) :
            /\ cache' = [cache EXCEPT ![Address] = left]
            /\ lastPut' = [lastPut EXCEPT ![Address] =
                             IF left = cache[Address] THEN @ ELSE {}]
            /\ Throw("write", "write failed")
            /\ UNCHANGED result
  /\ UNCHANGED << setupVars, current, storageFeeDebt, reported, state, fetched,
                  archiveRequests >>
  /\ UNCHANGED << scanVars, redeployVars, file, fullyCached >>

\* ----------------------------------------------------------- redeploy loop
\* What --target-balance may hold: {} is a string that is no integer, which
\* parseInt (line 95) lets through and BigInt (line 173) rejects.
BalanceArgs == {{}, {0}, {TargetBalance}}

\* Lines 172-173.
AmountNoFee(debt, balance) == debt + balance

Amount(debt, balance) == debt + balance + TX_FEE

Deploy(account, balance) ==
  [dest |-> account.address, state_init |-> account.state,
   amount |-> Amount(account.storageFeeDebt, balance), bounce |-> FALSE]

\* Lines 171-175 and 191: the head of the for loop over the prepared states
\* and the amount of the next one; past the last one the process exits with
\* 0.  parsedArgs.targetBalance is fixed when the process starts; nothing
\* looks at it before line 173, so it is chosen when it is first converted.
UnfreezeLoop ==
  /\ pc = "unfreeze"
  /\ IF item < Len(result)
       THEN /\ item' = item + 1
            /\ \E arg \in (IF targetBalance = {} THEN BalanceArgs
                                                ELSE {targetBalance}) :
                 IF arg = {}
                   THEN /\ Throw("amount", "Cannot convert to a BigInt")
                        /\ UNCHANGED targetBalance
                   ELSE /\ targetBalance' = arg
                        /\ Goto("send", Log("Unfreezing account", None))
       ELSE /\ UNCHANGED << item, targetBalance >>
            /\ pc' = "exit"
            /\ exitCode' = {0}
            /\ thrown' = None
            /\ UNCHANGED lastLog
  /\ UNCHANGED << runVars, scanVars, sent, inFlight, diskVars >>

\* Line 187: the loop goes on once subscriber.trace(tx).finished() resolved.
AfterSendNoAwait == "unfreeze"

AfterSend == "trace"

\* Lines 176-186: the deploy message is sent from the giver.
Send ==
  /\ pc = "send"
  /\ \/ /\ Throw("send", "send failed")
        /\ UNCHANGED << sent, inFlight >>
     \/ /\ \E balance \in targetBalance :
             sent' = Append(sent, Deploy(result[item], balance))
        /\ inFlight' = inFlight \cup {item}
        /\ Goto(AfterSend, Log("waiting for tx", None))
  /\ UNCHANGED << runVars, scanVars, item, targetBalance, diskVars >>

\* Lines 187-188: the wait for the whole transaction tree.
Trace ==
  /\ pc = "trace"
  /\ \/ /\ Throw("trace", "trace failed")
        /\ UNCHANGED inFlight
     \/ /\ inFlight' = inFlight \ {item}
        /\ Goto("unfreeze", Log("done", None))
  /\ UNCHANGED << runVars, scanVars, item, targetBalance, sent, diskVars >>

\* ------------------------------------------------------------ the process
\* The process is stopped from outside: its memory is gone, the messages it
\* sent and the files it wrote stay.  A writeFile under way may leave the
\* cache file as any interrupted write does.
Terminate ==
  /\ pc \notin {"exit", "killed"}
  /\ pc' = "killed"
  /\ IF pc = "write"
       THEN \E left \in Interrupted(cache[Address]) :
              /\ cache' = [cache EXCEPT ![Address] = left]
              /\ lastPut' = [lastPut EXCEPT ![Address] =
                               IF left = cache[Address] THEN @ ELSE {}]
       ELSE UNCHANGED << cache, lastPut >>
  /\ ignoreCache' = FALSE
  /\ giverCodeHash' = None
  /\ accountsStorage' = {}
  /\ accounts' = <<>>
  /\ current' = 0
  /\ result' = <<>>
  /\ storageFeeDebt' = 0
  /\ reported' = NotReported
  /\ freezeTransactionLt' = {}
  /\ continuation' = FALSE
  /\ state' = {}
  /\ item' = 0
  /\ targetBalance' = {}
  /\ lastLog' = NoLog
  /\ thrown' = None
  /\ touched' = Untouched
  /\ seen' = <<>>
  /\ delivered' = 0
  /\ requests' = 0
  /\ offered' = FALSE
  /\ fetched' = FALSE
  /\ archiveRequests' = 0
  /\ UNCHANGED << exitCode, sent, inFlight, file, fullyCached >>

\* The tool is run again on the same address file and cache directory.
Rerun ==
  /\ pc \in {"exit", "killed"}
  /\ pc' = "main"
  /\ exitCode' = {}
  /\ ignoreCache' = FALSE
  /\ giverCodeHash' = None
  /\ accountsStorage' = {}
  /\ accounts' = <<>>
  /\ current' = 0
  /\ result' = <<>>
  /\ storageFeeDebt' = 0
  /\ reported' = NotReported
  /\ freezeTransactionLt' = {}
  /\ continuation' = FALSE
  /\ state' = {}
  /\ item' = 0
  /\ targetBalance' = {}
  /\ sent' = <<>>
  /\ inFlight' = {}
  /\ lastLog' = NoLog
  /\ thrown' = None
  /\ touched' = Untouched
  /\ seen' = <<>>
  /\ delivered' = 0
  /\ requests' = 0
  /\ offered' = FALSE
  /\ fetched' = FALSE
  /\ archiveRequests' = 0
  /\ fullyCached' = \A a \in Listed(file.list) : cache[a] # {}
  /\ UNCHANGED << file, cache, lastPut >>

Next ==
  \/ Main
  \/ LoadKeys
  \/ GuessGiver(RunGiverStates)
  \/ ReadAccounts
  \/ ComputeAddr
  \/ MakeCacheDir
  \/ PrepareLoop
  \/ CheckStatus
  \/ TryCache
  \/ GetTransactions(RunPageLen, RunPages)
  \/ ApplyState
  \/ WriteFile
  \/ UnfreezeLoop
  \/ Send
  \/ Trace
  \/ Terminate
  \/ Rerun

Spec == Init /\ [][Next]_vars

\* The same program on a one-account list, with a provider that serves longer
\* histories: the specification of the claims about the freeze-point scan.
InitLocate ==
  /\ file = [readable |-> TRUE, list |-> << "a1" >>]
  /\ cache = [a \in Addrs |-> {}]
  /\ lastPut = [a \in Addrs |-> {}]
  /\ fullyCached = FALSE
  /\ RunInit

NextLocate ==
  \/ Main
  \/ LoadKeys
  \/ GuessGiver(GiverStates)
  \/ ReadAccounts
  \/ ComputeAddr
  \/ MakeCacheDir
  \/ PrepareLoop
  \/ CheckStatus
  \/ TryCache
  \/ GetTransactions(MaxPageLen, MaxPages)
  \/ ApplyState
  \/ WriteFile
  \/ UnfreezeLoop
  \/ Send
  \/ Trace
  \/ Terminate
  \/ Rerun

SpecLocate == InitLocate /\ [][NextLocate]_vars

\* ------------------------------------------------------------------ claims
SetupStages == {"args", "keys", "giver", "read", "addr", "mkdir"}
PerAccountStages ==
  {"status", "cache", "locate", "apply", "write", "send", "trace"}
KnownHashes == {WalletV3Hash, HighloadV2Hash, EverWalletHash, GiverHash}

\* No per-account provider query, no cache access, no states-API request and
\* no deploy message in this run.
NothingTouched ==
  /\ touched = Untouched
  /\ archiveRequests = 0
  /\ current = 0
  /\ sent = <<>>

\* C1: a failure at any per-account stage, redeploy submission and
\* confirmation included, is caught and the run goes on with the next account:
\* after such a throw the program stands at the head of one of its two loops.
C1_FailureIsolation ==
  thrown \in PerAccountStages => pc \in {"loop", "unfreeze"}

\* C2: when a run that got through set-up ends, the redeploy loop has reached
\* every account whose preparation succeeded, in list order.
C2_EveryPreparedSubmitted ==
  (pc = "exit" /\ thrown \notin SetupStages /\ lastLog.kind # "usage")
    => item = Len(result)

\* C3: when the giver cannot be resolved (absent, uninit, unrecognised code
\* hash) or the address file cannot be read, the run touches no account; with
\* an unresolvable giver it has ended with exit code 1.
C3_SetupFailureTouchesNothing ==
  /\ ~file.readable => NothingTouched /\ pc \notin {"addr", "mkdir", "loop"}
  /\ giverCodeHash \notin KnownHashes \cup {None}
       => NothingTouched /\ pc = "exit" /\ exitCode = {1}

\* C3 witness: a run aborted by an unlisted code hash while the address file
\* lists accounts and the cache of an earlier run holds a file.
C3_Witness ==
  /\ pc = "exit"
  /\ thrown = "giver"
  /\ giverCodeHash = UnlistedHash
  /\ file.list # <<>>
  /\ cache["a1"] # {}

\* The k-th transaction looked at is the first whose origin status is not
\* frozen, and every transaction up to it ends frozen.
IsTransitionAt(k) ==
  /\ seen[k].origStatus # "frozen"
  /\ \A j \in 1..k : seen[j].endStatus = "frozen"
  /\ \A j \in 1..(k - 1) : seen[j].origStatus = "frozen"

\* C4: as soon as the scan has looked at such a transaction, locate has
\* returned its logical time: it is the last transaction looked at, and no
\* page after its own was requested.
C4_LocateReturnsFirstTransition ==
  \A k \in 1..Len(seen) :
    IsTransitionAt(k) =>
      /\ pc = "apply"
      /\ k = Len(seen)
      /\ seen[k].lt = LtOf(k)
      /\ freezeTransactionLt = {seen[k].lt}
      /\ requests = seen[k].page

\* C4 witness: [frozen->frozen, active->frozen, older] in one page that
\* carries a continuation: the second key is returned, the older transaction
\* and the next page are left alone.
C4_Witness ==
  /\ pc = "apply"
  /\ Len(seen) = 2
  /\ seen[1].origStatus = "frozen"
  /\ freezeTransactionLt = {LtOf(2)}
  /\ delivered = 3
  /\ offered
  /\ requests = 1

\* C5: a transaction that does not end frozen is the last one the scan looks
\* at: locate has thrown "Account not frozen", the account is skipped, no
\* page after its own was requested and no states-API request was made.
C5_NotFrozenStopsScan ==
  \A k \in 1..Len(seen) :
    seen[k].endStatus # "frozen" =>
      /\ k = Len(seen)
      /\ pc = "loop"
      /\ thrown = "locate"
      /\ lastLog = Log("skipping", "Account not frozen")
      /\ requests = seen[k].page
      /\ ~fetched

\* C5 witness: the throw comes at the second transaction of a page that has a
\* third one and a continuation.
C5_Witness ==
  /\ pc = "loop"
  /\ lastLog = Log("skipping", "Account not frozen")
  /\ Len(seen) = 2
  /\ delivered = 3
  /\ offered

\* The whole history was delivered and looked at, and no transaction in it
\* has an origin status other than frozen.
ExhaustedWithoutTransition ==
  /\ requests >= 1
  /\ ~offered
  /\ delivered = Len(seen)
  /\ \A k \in 1..Len(seen) :
       seen[k].origStatus = "frozen" /\ seen[k].endStatus = "frozen"

\* C6: when the history is exhausted without a transaction of non-frozen
\* origin, the empty history included, locate has thrown "Freeze transaction
\* not found"; the account is skipped and no states-API request was made.
C6_ExhaustedHistoryFails ==
  ExhaustedWithoutTransition =>
    /\ pc = "loop"
    /\ thrown = "locate"
    /\ lastLog = Log("skipping", "Freeze transaction not found")
    /\ ~fetched

\* C6 witness: an empty page with a continuation, then an empty last page.
C6_Witness ==
  /\ pc = "loop"
  /\ lastLog = Log("skipping", "Freeze transaction not found")
  /\ requests = 2
  /\ delivered = 0

\* C7 as stated: an account whose history holds no transaction with an end
\* status other than frozen fails with "Account not frozen".
C7_NeverNonFrozenEndFails ==
  ( /\ pc \in {"apply", "loop"}
    /\ requests >= 1
    /\ ~offered
    /\ delivered = Len(seen)
    /\ \A k \in 1..Len(seen) : seen[k].endStatus = "frozen" )
    => (thrown = "locate" /\ lastLog = Log("skipping", "Account not frozen"))

\* C7 as amended: an account whose newest transaction does not end frozen
\* fails with "Account not frozen", and locate throws that error only at a
\* transaction that does not end frozen.
C7_NeverFrozenEndFails ==
  /\ (Len(seen) >= 1 /\ seen[1].endStatus # "frozen")
       => /\ pc = "loop"
          /\ thrown = "locate"
          /\ lastLog = Log("skipping", "Account not frozen")
  /\ (thrown = "locate" /\ lastLog = Log("skipping", "Account not frozen"))
       => \E k \in 1..Len(seen) : seen[k].endStatus # "frozen"

\* C7 witness: the newest transaction goes from active to active.
C7_Witness ==
  /\ pc = "loop"
  /\ lastLog = Log("skipping", "Account not frozen")
  /\ Len(seen) = 1
  /\ seen[1].origStatus = "active"

\* C8: with the cache in use, the history scan and the states-API request
\* happen only for an address without cache file; a run that started with a
\* cache file for every listed address makes no states-API request.
C8_CachedMeansNoRequest ==
  ~ignoreCache =>
    /\ pc \in {"locate", "apply", "write"} => cache[Address] = {}
    /\ fullyCached => archiveRequests = 0

\* C8 witness: a later run over two addresses, both cached, ends with both
\* prepared and no request made.
C8_Witness ==
  /\ pc = "exit"
  /\ exitCode = {0}
  /\ ~ignoreCache
  /\ fullyCached
  /\ accounts = << "a1", "a2" >>
  /\ Len(result) = 2
  /\ archiveRequests = 0

\* C9: with the cache in use, the state of every prepared account is the
\* very string of the last completed write for its address, and the deploy
\* message for it carries that string.
C9_CacheRoundTrip ==
  ~ignoreCache =>
    \A i \in 1..Len(result) :
      LET a == result[i].address IN
      lastPut[a] # {} =>
        /\ lastPut[a] = {result[i].state}
        /\ i <= Len(sent) =>
             sent[i].dest = a /\ sent[i].state_init = result[i].state

\* C9 witness: a deploy message is out for a state read from the cache (the
\* run has made no states-API request).
C9_Witness ==
  /\ pc = "trace"
  /\ ~ignoreCache
  /\ archiveRequests = 0
  /\ lastLog = Log("waiting for tx", None)
  /\ lastPut[sent[item].dest] = {sent[item].state_init}

\* C10: with ignore-cache set no account is served from the cache: an
\* account that got through was reconstructed in this run, and the cache file
\* of its address holds the bytes of the new state.
C10_IgnoreCacheRewrites ==
  (ignoreCache /\ pc = "loop" /\ current >= 1 /\ thrown = None) =>
    /\ fetched
    /\ lastLog = Log("updated cached state", None)
    /\ Len(result) >= 1
    /\ result[Len(result)].address = Address
    /\ cache[Address] = {FromBase64(result[Len(result)].state)}

\* C10 witness: the same address twice in the list; the second
\* reconstruction gives another state and the cache file holds it.
C10_Witness ==
  /\ ignoreCache
  /\ pc = "loop"
  /\ Len(result) = 2
  /\ result[1].address = result[2].address
  /\ result[1].state # result[2].state
  /\ cache[result[2].address] = {FromBase64(result[2].state)}

\* A prepared state has just been pushed for the account in hand.
Pushed ==
  /\ pc = "loop"
  /\ thrown = None
  /\ lastLog.kind \in {"using cached state", "updated cached state"}

\* C11: the amount of every redeploy submission is the account's debt plus
\* the target balance plus the fixed relay fee, the debt being 0 when the fee
\* facility reported none; with a debt of 0 or more the amount is strictly
\* above the target balance.
C11_AmountCoversDebtBalanceAndFee ==
  /\ Pushed /\ reported.storageFeeDebt = {}
       => result[Len(result)].storageFeeDebt = 0
  /\ pc = "trace" =>
       \E balance \in targetBalance :
         LET debt == result[item].storageFeeDebt
             amount == sent[Len(sent)].amount
         IN  /\ amount = debt + balance + TX_FEE
             /\ debt >= 0 => amount > balance

C11_Witness ==
  /\ pc = "trace"
  /\ result[item].storageFeeDebt = 0
  /\ targetBalance = {TargetBalance}
  /\ sent[Len(sent)].amount = TargetBalance + TX_FEE

\* The giver's resolution failed with this message and ended the run.
GiverFailed(msg) ==
  /\ accountsStorage = {}
  /\ pc = "exit"
  /\ exitCode = {1}
  /\ thrown = "giver"
  /\ lastLog = Log("fatal", msg)

\* C12: the giver's resolver maps each of the four known code hashes to its
\* own protocol, only the giver contract carrying the public key, and fails on
\* every other value: the empty string and a well-formed unlisted hash are
\* unknown contracts, a missing state is not found and a state without code
\* hash is uninitialized.
C12_ResolverTotalAndClosed ==
  /\ giverCodeHash = WalletV3Hash
       => accountsStorage = {Account("WalletV3Account", FALSE)}
  /\ giverCodeHash = HighloadV2Hash
       => accountsStorage = {Account("HighloadWalletV2", FALSE)}
  /\ giverCodeHash = EverWalletHash
       => accountsStorage = {Account("EverWalletAccount", FALSE)}
  /\ giverCodeHash = GiverHash
       => accountsStorage = {Account("GiverAccount", TRUE)}
  /\ giverCodeHash \in {"", UnlistedHash} => GiverFailed("Unknown contract")
  /\ giverCodeHash = "absent" => GiverFailed("Giver account not found")
  /\ giverCodeHash = "uninit" => GiverFailed("Giver account is uninit")

\* C12 witness: the everwallet code hash has been resolved without a public
\* key and the run goes on.
C12_Witness ==
  /\ giverCodeHash = EverWalletHash
  /\ accountsStorage = {Account("EverWalletAccount", FALSE)}
  /\ pc = "read"

\* C13: at most one redeploy is in flight: a deploy message is submitted
\* only when no earlier one of the run is submitted and unconfirmed, and the
\* one in flight during the wait is the one of the account in hand.
C13_OneRedeployInFlight ==
  /\ Cardinality(inFlight) <= 1
  /\ pc = "send" => inFlight = {}
  /\ pc = "trace" => inFlight = {item}
  /\ pc = "unfreeze" => inFlight = {}

\* C13 witness: the second account's deploy message is in flight, the first
\* one's is confirmed.
C13_Witness ==
  /\ pc = "trace"
  /\ item = 2
  /\ Len(sent) = 2
  /\ inFlight = {2}

\* C14: a state is prepared for redeploy only for an account that
\* computeStorageFee reported frozen or nonexistent in this run; with any other
\* reported status the account is skipped with the not-frozen error, whether
\* or not the cache holds its state.
C14_OnlyFrozenReachesRedeploy ==
  /\ Pushed => reported.accountStatus \in {"frozen", "nonexist"}
  /\ pc \in {"cache", "locate", "apply", "write"}
       => reported.accountStatus \in {"frozen", "nonexist"}
  /\ reported.accountStatus \in {"active", "uninit"}
       => /\ pc = "loop"
          /\ thrown = "status"
          /\ lastLog = Log("skipping", "Account is not frozen")
          /\ Len(result) < current

\* C14 witness: an account reported active is skipped although the cache is
\* in use and holds its state.
C14_Witness ==
  /\ pc = "loop"
  /\ thrown = "status"
  /\ reported.accountStatus = "active"
  /\ ~ignoreCache
  /\ cache[Address] # {}
  /\ Len(result) < current

\* C15: a file-access error of the cache lookup other than a missing file is
\* fatal: it ends the whole run with exit code 1 instead of skipping the
\* account.
C15_CacheAccessErrorIsFatal ==
  thrown = "cache" => pc = "exit" /\ exitCode = {1}

\* The run went through the whole address list and through every prepared
\* state, whatever was skipped on the way.
PassCompleted ==
  /\ pc = "exit"
  /\ file.readable
  /\ accounts = file.list
  /\ current = Len(accounts)
  /\ item = Len(result)
  /\ thrown = None
  /\ lastLog.kind \in {"Unfreezing contracts", "done"}

\* C16: the process exits with 0 whenever the run completes its pass over the
\* address list, accounts skipped or not, and with 1 after a fatal error of
\* the set-up and after a request for help; before it exits it has no code.
C16_ExitCodes ==
  /\ PassCompleted => exitCode = {0}
  /\ pc = "exit" /\ thrown \in SetupStages => exitCode = {1}
  /\ pc = "exit" /\ lastLog.kind = "usage" => exitCode = {1}
  /\ pc = "exit" => exitCode # {}
  /\ exitCode = {0} => PassCompleted

\* C16 witness: both listed accounts were skipped and the process exits
\* with 0.
C16_Witness ==
  /\ PassCompleted
  /\ Len(accounts) = 2
  /\ result = <<>>
  /\ lastLog.kind = "Unfreezing contracts"
  /\ exitCode = {0}

\* C17 as claimed: an account's cache lookup begins before its debt is
\* estimated, and every state prepared earlier has been redeployed when the
\* next account's cache lookup begins.
C17_LookupFirstRedeployBeforeNext ==
  pc = "cache" => /\ reported = NotReported
                  /\ Len(sent) = Len(result)

\* C17: for each account the status and debt come first, then the cache
\* lookup, on a miss the scan for the freeze transaction, then the states-API
\* request, then the cache write; no deploy message is sent before every
\* listed account has been prepared or skipped, and the messages then go out
\* in the order of the prepared states.
C17_PrepareAllThenRedeploy ==
  /\ pc \in {"cache", "locate", "apply", "write"} => reported # NotReported
  /\ pc \in {"locate", "apply", "write"}
       => ignoreCache \/ cache[Address] = {}
  /\ pc = "apply" => freezeTransactionLt # {} /\ ~fetched
  /\ pc = "write" => state # {} /\ fetched
  /\ pc \in {"loop", "status", "cache", "locate", "apply", "write"}
       => sent = <<>> /\ item = 0
  /\ pc \in {"unfreeze", "send", "trace"} => current = Len(accounts)
  /\ pc = "trace" => /\ Len(sent) = item
                     /\ \A i \in 1..item : sent[i].dest = result[i].address

\* C17 witness: the second account's cache lookup begins with its debt known
\* while the first account's prepared state waits, not yet redeployed.
C17_Witness ==
  /\ pc = "cache"
  /\ current = 2
  /\ reported # NotReported
  /\ Len(result) = 1
  /\ sent = <<>>

\* What the cache may hold for an address: the bytes of a state, or what an
\* interrupted write left of them.
CacheContents == {FromBase64(chars) : chars \in StateInits} \cup {<<>>}

\* C18: the debt is never taken from the cache.  A cache file holds bytes of
\* a state and nothing else, and the debt of a prepared state is the one
\* computeStorageFee reported for the account in this run (0 for none), with
\* the state taken from the cache as with the state fetched.
C18_DebtFromThisRun ==
  /\ \A a \in Addrs : cache[a] \subseteq CacheContents
  /\ Pushed =>
       /\ reported.accountStatus # None
       /\ LET debt == result[Len(result)].storageFeeDebt IN
          /\ reported.storageFeeDebt # {} => reported.storageFeeDebt = {debt}
          /\ reported.storageFeeDebt = {} => debt = 0
  /\ pc = "send" => \A i \in 1..Len(sent) :
       \E balance \in targetBalance :
         sent[i].amount = result[i].storageFeeDebt + balance + TX_FEE

\* C18 witness: the state comes from the cache and the debt of 1 from this
\* run's report.
C18_Witness ==
  /\ Pushed
  /\ lastLog.kind = "using cached state"
  /\ reported.storageFeeDebt = {1}
  /\ result[Len(result)].storageFeeDebt = 1
  /\ ~fetched

\* C19: a cache file is created or overwritten only by the write that
\* follows a successful scan and a successful states-API request with a
\* decoded state for that address, and only that address's file; a step that
\* fails at the status check, the scan, the request or the decoding leaves
\* every cache file as it was and pushes no prepared state for the account.
C19_CacheWrittenOnlyAfterReconstruct ==
  [][ /\ cache' # cache
        => /\ pc = "write"
           /\ fetched
           /\ state # {}
           /\ \A a \in Addrs \ {Address} : cache'[a] = cache[a]
      /\ pc' = "write" => state' # {}
      /\ pc \in {"status", "locate", "apply"} /\ thrown' = pc
        => /\ cache' = cache
           /\ result' = result
           /\ pc' = "loop"
           /\ Len(result') < current'
    ]_vars

\* C19 witness: the states API answered with a state that does not decode;
\* the account is skipped and the file an earlier run wrote for it is still
\* there.
C19_Witness ==
  /\ pc = "loop"
  /\ thrown = "apply"
  /\ lastLog = Log("skipping", "Empty state")
  /\ cache[Address] # {}
  /\ lastPut[Address] # {}
  /\ Len(result) < current

\* What the scan of a history yields when it is read as one newest-first
\* sequence, whatever pages it came in: the first transaction that does not
\* end frozen or does not start frozen decides.
FlatOutcome(history) ==
  LET Decisive == {i \in 1..Len(history) :
                     \/ history[i].endStatus # "frozen"
                     \/ history[i].origStatus # "frozen"}
  IN  IF Decisive = {} THEN [kind |-> "not found", lt |-> {}]
      ELSE LET k == CHOOSE i \in Decisive : \A j \in Decisive : i <= j
           IN  IF history[k].endStatus # "frozen"
                 THEN [kind |-> "not frozen", lt |-> {}]
                 ELSE [kind |-> "found", lt |-> {history[k].lt}]

\* C20: the outcome of the scan, the key it returns or the error it throws,
\* is the outcome of the transactions read as one sequence, however the
\* provider split them into pages, empty pages with a continuation included;
\* the walk asks for a page only after a page with a continuation, never
\* reads a transaction twice and so ends once a page comes without one.
C20_LocateIgnoresPaging ==
  /\ pc = "apply"
       => FlatOutcome(seen) = [kind |-> "found", lt |-> freezeTransactionLt]
  /\ thrown = "locate" /\ lastLog.msg = "Account not frozen"
       => FlatOutcome(seen).kind = "not frozen"
  /\ thrown = "locate" /\ lastLog.msg = "Freeze transaction not found"
       => /\ FlatOutcome(seen).kind = "not found"
          /\ Len(seen) = delivered
          /\ ~offered
  /\ pc = "locate" /\ requests > 0
       => /\ offered
          /\ FlatOutcome(seen).kind = "not found"
          /\ Len(seen) = delivered
  /\ requests <= MaxPages
  /\ \A i \in 1..Len(seen) :
       /\ seen[i].page <= requests
       /\ \A j \in 1..Len(seen) :
            i < j => seen[j].lt < seen[i].lt /\ seen[i].page <= seen[j].page

\* C20 witness: the first page came empty with a continuation, the second
\* page held two transactions and the second of them is the freeze
\* transaction.
C20_Witness ==
  /\ pc = "apply"
  /\ requests = 2
  /\ Len(seen) = 2
  /\ seen[1].page = 2
  /\ freezeTransactionLt = {seen[2].lt}

====
